---- MODULE Spec2Model ----
(***************************************************************************)
(* Model of the Blokus rules engine of src/src/game.rs: Position, Piece,   *)
(* Board, Player, Players and Game, with the placement transaction         *)
(* Game::place_piece, the legality rule of Board::place_piece and the      *)
(* rotation of Piece::rotate; of Piece::from_str of src/src/main.rs; and   *)
(* of the state of BoardDisplay of src/src/ui/board_module.rs.             *)
(*                                                                         *)
(* Conventions.  A Vec is a TLA+ sequence; the element the code reaches at *)
(* index i is element i + 1 of the sequence.  A Position is a record       *)
(* [x, y].  The f32 pivot of a Piece is stored as a whole number of        *)
(* quarters (pivot 0.5 is 2, pivot 1.0 is 4); every value the model uses   *)
(* is exact in f32.  A panic (unwrap on Err, index out of range, checked   *)
(* arithmetic) ends the process: the call's result is "panic" and no       *)
(* further operation runs.  Each call records its arguments, the state it  *)
(* started from and its result; the caller takes the result before it      *)
(* makes the next call.  A game also keeps the list of its accepted        *)
(* placements, each with the cells it changed.                             *)
(***************************************************************************)
EXTENDS Integers, Sequences, FiniteSets, TLC

VARIABLES
    board,                \* Game.board: [width, height, tiles]
    players,              \* Players.players: sequence of Player records
    active_player_index,  \* Players.active_player_index
    game_call,            \* the last Game::place_piece call: arguments, state before, result
    board_call,           \* the last direct Board::place_piece call
    piece,                \* the Piece that Piece::rotate is applied to
    piece_call,           \* the Piece as constructed, before the last rotate, rotations so far
    state_call,           \* the last Board::get_state_on_position call of a caller
    parse_call,           \* the last Piece::from_str call: the text's lines and the result
    display               \* BoardDisplay.state, with the IndexedPiece of State::PieceSelected

vars == <<board, players, active_player_index, game_call, board_call, piece, piece_call,
          state_call, parse_call, display>>

(***************************************************************************)
(* Bounds of the model.                                                    *)
(***************************************************************************)
\* Board::new(BoardWidth, BoardHeight); main builds a 20 x 20 board
BoardWidth == 3
BoardHeight == 2
\* A game has one player or MaxPlayers players
MaxPlayers == 2
\* Game::place_piece is called with rotations in 0..MaxRotations
MaxRotations == 4
\* Number of Game::place_piece calls of a game, and of Board::place_piece
\* calls on a board
MaxCalls == 2
\* SpecRotations: the first MaxCallsAnyRotations calls of a game are made
\* with rotations in 0..MaxRotationsAnyCount
MaxRotationsAnyCount == 6
MaxCallsAnyRotations == 1
\* SpecSeats: a game has one player or MaxSeats players, and up to
\* MaxSeatCalls calls of Game::place_piece with rotations in
\* 0..MaxSeatRotations
MaxSeats == 5
MaxSeatCalls == 5
MaxSeatRotations == 1
\* SpecPiece: block coordinates are in 0..MaxCoordinate, a piece has
\* 1..MaxBlocks blocks, its pivot is 0..MaxPivot quarters, and rotate() is
\* called up to MaxRotateCalls times
MaxCoordinate == 2
MaxBlocks == 2
MaxPivot == 4
MaxRotateCalls == 5
\* SpecFromStr: the text of a piece has 0..MaxGridLines lines of
\* 0..MaxGridColumns characters each
MaxGridLines == 2
MaxGridColumns == 2

\* u16::MAX + 1
U16 == 65536

(***************************************************************************)
(* Position                                                                *)
(***************************************************************************)
Position(x, y) == [x |-> x, y |-> y]

\* impl Add for &Position (u16 arithmetic)
PositionAdd(a, b) == Position((a.x + b.x) % U16, (a.y + b.y) % U16)

\* impl Sub for &Position (u16 arithmetic)
PositionSub(a, b) == Position((a.x - b.x) % U16, (a.y - b.y) % U16)

\* `v as u16` for an f32 v given in quarters: truncates toward zero and
\* saturates at 0 and at u16::MAX.
F32AsU16(quarters) ==
    IF quarters <= 0 THEN 0
    ELSE IF quarters \div 4 >= U16 THEN U16 - 1
    ELSE quarters \div 4

\* Faulty variant of rotate_around_pivot: ignores the pivot
rotate_around_pivot_mirror(position, pivot_position) ==
    Position(position.y, position.x)

\* Position::rotate_around_pivot
rotate_around_pivot(position, pivot_position) ==
    Position(F32AsU16(pivot_position + pivot_position - 4 * position.y), position.x)

\* Faulty variant of check_within_bounds: the last column and the last line
\* are out of bounds too
check_within_bounds_off_by_one(position, width, height) ==
    ~(position.x + 1 >= width \/ position.y + 1 >= height)

\* Position::check_within_bounds: TRUE for Ok(()), FALSE for Err("Out of bounds")
check_within_bounds(position, width, height) ==
    ~(position.x >= width \/ position.y >= height)

(***************************************************************************)
(* Piece                                                                   *)
(***************************************************************************)
SeqMin(s) == CHOOSE m \in {s[i] : i \in DOMAIN s} : \A i \in DOMAIN s : m <= s[i]
SeqMax(s) == CHOOSE m \in {s[i] : i \in DOMAIN s} : \A i \in DOMAIN s : m >= s[i]

\* Piece::min_x, Piece::min_y (blocks is never empty: unwrap() of an empty
\* minimum panics in Piece::new)
min_x(blocks) == SeqMin([i \in DOMAIN blocks |-> blocks[i].x])
min_y(blocks) == SeqMin([i \in DOMAIN blocks |-> blocks[i].y])

\* Piece::calculate_num_lines, Piece::calculate_num_columns
calculate_num_lines(blocks, minY) ==
    (SeqMax([i \in DOMAIN blocks |-> blocks[i].y]) - minY) + 1
calculate_num_columns(blocks, minX) ==
    (SeqMax([i \in DOMAIN blocks |-> blocks[i].x]) - minX) + 1

\* Piece::new
Piece_new(blocks, pivot) ==
    [blocks |-> blocks,
     pivot |-> pivot,
     num_lines |-> calculate_num_lines(blocks, min_y(blocks)),
     num_columns |-> calculate_num_columns(blocks, min_x(blocks)),
     bounding_box_offset |-> Position(min_x(blocks), min_y(blocks))]

\* Piece::blocks
blocks(p) == [i \in DOMAIN p.blocks |-> PositionSub(p.blocks[i], p.bounding_box_offset)]

\* Faulty variant of rotate: keeps num_lines and num_columns
rotate_no_swap(p) ==
    LET rotated == [i \in DOMAIN p.blocks |-> rotate_around_pivot(p.blocks[i], p.pivot)]
    IN [blocks |-> rotated,
        pivot |-> p.pivot,
        num_lines |-> p.num_lines,
        num_columns |-> p.num_columns,
        bounding_box_offset |-> Position(min_x(rotated), min_y(rotated))]

\* Piece::rotate
rotate(p) ==
    LET rotated == [i \in DOMAIN p.blocks |-> rotate_around_pivot(p.blocks[i], p.pivot)]
    IN [blocks |-> rotated,
        pivot |-> p.pivot,
        num_lines |-> p.num_columns,
        num_columns |-> p.num_lines,
        bounding_box_offset |-> Position(min_x(rotated), min_y(rotated))]

\* (0..n).for_each(|_| piece.rotate()): rotate applied n times.  n can be as
\* large as u16::MAX, so the orbit of the piece is followed only until it
\* closes; from there the n-th element is read off the cycle.
RECURSIVE RotateOrbit(_, _)
RotateOrbit(seen, n) ==
    IF n = Len(seen) - 1 THEN seen[Len(seen)]
    ELSE LET nxt == rotate(seen[Len(seen)])
             hits == {i \in DOMAIN seen : seen[i] = nxt}
         IN IF hits = {} THEN RotateOrbit(Append(seen, nxt), n)
            ELSE LET first == CHOOSE i \in hits : TRUE
                     period == Len(seen) + 1 - first
                 IN seen[first + ((n - (first - 1)) % period)]

rotate_times(p, n) == RotateOrbit(<<p>>, n)

(***************************************************************************)
(* Board                                                                   *)
(***************************************************************************)
\* enum State
Free == <<"Free">>
Occupied(index) == <<"Occupied", index>>

\* Board::new
Board_new(width, height) ==
    [width |-> width,
     height |-> height,
     tiles |-> [y \in 0..(height - 1) |-> [x \in 0..(width - 1) |-> Free]]]

\* Board::get_state_on_position: Ok(state) or Err("Out of bounds (x, y)")
get_state_on_position(b, position) ==
    IF check_within_bounds(position, b.width, b.height)
    THEN [ok |-> TRUE, value |-> b.tiles[position.y][position.x]]
    ELSE [ok |-> FALSE, value |-> <<"Out of bounds", position.x, position.y>>]

\* Faulty variant of occupy_position: always marks the cell for player 0
occupy_position_first_player(b, position, player_index) ==
    IF position.y < b.height /\ position.x < b.width
    THEN [panic |-> FALSE,
          board |-> [b EXCEPT !.tiles[position.y][position.x] = Occupied(0)]]
    ELSE [panic |-> TRUE, board |-> b]

\* Board::occupy_position: the Vec index panics outside the grid
occupy_position(b, position, player_index) ==
    IF position.y < b.height /\ position.x < b.width
    THEN [panic |-> FALSE,
          board |-> [b EXCEPT !.tiles[position.y][position.x] = Occupied(player_index)]]
    ELSE [panic |-> TRUE, board |-> b]

\* A bool-valued method of Board evaluates to "true" or "false", or it panics
\* in unwrap() and evaluates to "panic".
Bool(v) == IF v THEN "true" ELSE "false"

\* Faulty variant of block_position_is_not_occupied: takes every cell of the
\* grid for Free
block_position_is_not_occupied_always(b, position) ==
    LET r == get_state_on_position(b, position)
    IN IF ~r.ok THEN "panic" ELSE "true"

\* Board::block_position_is_not_occupied
block_position_is_not_occupied(b, position) ==
    LET r == get_state_on_position(b, position)
    IN IF ~r.ok THEN "panic" ELSE Bool(r.value = Free)

\* One `match self.get_state_on_position(..).unwrap()` arm of the neighbour
\* scans: "true" when the cell is Occupied(index) with index == player_index.
neighbour_is_same_player(b, x, y, player_index) ==
    LET r == get_state_on_position(b, Position(x, y))
    IN IF ~r.ok THEN "panic" ELSE Bool(r.value = Occupied(player_index))

\* The guarded probes of a neighbour scan run in order; the scan returns at
\* the first probe that matches and panics at the first probe that panics.
\* A probe whose guard is false is skipped ("false").
RECURSIVE first_decisive(_, _)
first_decisive(probes, i) ==
    IF i > Len(probes) THEN "false"
    ELSE IF probes[i] = "false" THEN first_decisive(probes, i + 1)
    ELSE probes[i]

\* Faulty variant of block_is_not_adjacent_to_other_blocks_from_same_player:
\* looks left and right only
block_is_not_adjacent_no_vertical(b, position, player_index) ==
    LET x == position.x
        y == position.y
        hit == first_decisive(<<
            IF x > 0 THEN neighbour_is_same_player(b, x - 1, y, player_index) ELSE "false",
            IF x < b.width - 1 THEN neighbour_is_same_player(b, x + 1, y, player_index) ELSE "false"
            >>, 1)
    IN IF hit = "panic" THEN "panic" ELSE Bool(hit = "false")

\* Board::block_is_not_adjacent_to_other_blocks_from_same_player
block_is_not_adjacent_to_other_blocks_from_same_player(b, position, player_index) ==
    LET x == position.x
        y == position.y
        hit == first_decisive(<<
            IF x > 0 THEN neighbour_is_same_player(b, x - 1, y, player_index) ELSE "false",
            IF x < b.width - 1 THEN neighbour_is_same_player(b, x + 1, y, player_index) ELSE "false",
            IF y > 0 THEN neighbour_is_same_player(b, x, y - 1, player_index) ELSE "false",
            IF y < b.height - 1 THEN neighbour_is_same_player(b, x, y + 1, player_index) ELSE "false"
            >>, 1)
    IN IF hit = "panic" THEN "panic" ELSE Bool(hit = "false")

\* Faulty variant of block_is_diagonally_adjacent_to_block_from_same_player:
\* looks at the two lower diagonal neighbours only
block_is_diagonally_adjacent_lower_only(b, position, player_index) ==
    LET x == position.x
        y == position.y
    IN first_decisive(<<
        IF x > 0 /\ y < b.height - 1
            THEN neighbour_is_same_player(b, x - 1, y + 1, player_index) ELSE "false",
        IF x < b.width - 1 /\ y < b.height - 1
            THEN neighbour_is_same_player(b, x + 1, y + 1, player_index) ELSE "false"
        >>, 1)

\* Faulty variant of block_is_diagonally_adjacent_to_block_from_same_player:
\* the right-hand neighbours are read without the guard on the right edge
block_is_diagonally_adjacent_unguarded_right(b, position, player_index) ==
    LET x == position.x
        y == position.y
    IN first_decisive(<<
        IF x > 0 /\ y > 0
            THEN neighbour_is_same_player(b, x - 1, y - 1, player_index) ELSE "false",
        IF y > 0
            THEN neighbour_is_same_player(b, x + 1, y - 1, player_index) ELSE "false",
        IF x > 0 /\ y < b.height - 1
            THEN neighbour_is_same_player(b, x - 1, y + 1, player_index) ELSE "false",
        IF y < b.height - 1
            THEN neighbour_is_same_player(b, x + 1, y + 1, player_index) ELSE "false"
        >>, 1)

\* Board::block_is_diagonally_adjacent_to_block_from_same_player
block_is_diagonally_adjacent_to_block_from_same_player(b, position, player_index) ==
    LET x == position.x
        y == position.y
    IN first_decisive(<<
        IF x > 0 /\ y > 0
            THEN neighbour_is_same_player(b, x - 1, y - 1, player_index) ELSE "false",
        IF x < b.width - 1 /\ y > 0
            THEN neighbour_is_same_player(b, x + 1, y - 1, player_index) ELSE "false",
        IF x > 0 /\ y < b.height - 1
            THEN neighbour_is_same_player(b, x - 1, y + 1, player_index) ELSE "false",
        IF x < b.width - 1 /\ y < b.height - 1
            THEN neighbour_is_same_player(b, x + 1, y + 1, player_index) ELSE "false"
        >>, 1)

\* Faulty variant of block_touches_corner: knows the corner (0, 0) only
block_touches_corner_origin_only(b, position) ==
    position.x = 0 /\ position.y = 0

\* Faulty variant of block_touches_corner: every cell of the top line counts
block_touches_corner_top_line(b, position) ==
    position.y = 0

\* Board::block_touches_corner
block_touches_corner(b, position) ==
    \/ position.x = 0 /\ position.y = 0
    \/ position.x = b.width - 1 /\ position.y = 0
    \/ position.x = 0 /\ position.y = b.height - 1
    \/ position.x = b.width - 1 /\ position.y = b.height - 1

\* piece.blocks().map(|block| &block + offset)
target_positions(p, offset) ==
    LET local == blocks(p) IN [i \in DOMAIN local |-> PositionAdd(local[i], offset)]

\* Faulty variant of all_blocks_can_be_placed: a cell of another player counts
\* as Free
RECURSIVE all_blocks_can_be_placed_over_others(_, _, _, _)
all_blocks_can_be_placed_over_others(b, positions, player_index, i) ==
    IF i > Len(positions) THEN "true"
    ELSE LET r == get_state_on_position(b, positions[i])
         IN IF ~r.ok THEN "panic"
            ELSE IF r.value = Occupied(player_index) THEN "false"
            ELSE LET apart == block_is_not_adjacent_to_other_blocks_from_same_player(
                                  b, positions[i], player_index)
                 IN IF apart # "true" THEN apart
                    ELSE all_blocks_can_be_placed_over_others(b, positions, player_index, i + 1)

\* .all(|position| not_occupied(position) && not_adjacent(position)): stops at
\* the first position that fails, panics at the first one that panics.
RECURSIVE all_blocks_can_be_placed(_, _, _, _)
all_blocks_can_be_placed(b, positions, player_index, i) ==
    IF i > Len(positions) THEN "true"
    ELSE LET free == block_position_is_not_occupied(b, positions[i])
         IN IF free # "true" THEN free
            ELSE LET apart == block_is_not_adjacent_to_other_blocks_from_same_player(
                                  b, positions[i], player_index)
                 IN IF apart # "true" THEN apart
                    ELSE all_blocks_can_be_placed(b, positions, player_index, i + 1)

\* .find(|position| diagonally_adjacent(position)).is_some()
RECURSIVE some_block_is_diagonally_adjacent(_, _, _, _)
some_block_is_diagonally_adjacent(b, positions, player_index, i) ==
    IF i > Len(positions) THEN "false"
    ELSE LET diagonal == block_is_diagonally_adjacent_to_block_from_same_player(
                             b, positions[i], player_index)
         IN IF diagonal # "false" THEN diagonal
            ELSE some_block_is_diagonally_adjacent(b, positions, player_index, i + 1)

\* Faulty variant of piece_can_be_placed: on a first move the corner alone
\* decides
piece_can_be_placed_corner_only(b, p, offset, player_index, first_round) ==
    LET positions == target_positions(p, offset)
        can_generally_be_placed == all_blocks_can_be_placed(b, positions, player_index, 1)
    IN IF can_generally_be_placed = "panic" THEN "panic"
       ELSE IF first_round
       THEN Bool(\E i \in DOMAIN positions : block_touches_corner(b, positions[i]))
       ELSE LET is_diagonally_adjacent ==
                    some_block_is_diagonally_adjacent(b, positions, player_index, 1)
            IN IF is_diagonally_adjacent = "panic" THEN "panic"
               ELSE Bool(is_diagonally_adjacent = "true" /\ can_generally_be_placed = "true")

\* Board::piece_can_be_placed
piece_can_be_placed(b, p, offset, player_index, first_round) ==
    LET positions == target_positions(p, offset)
        can_generally_be_placed == all_blocks_can_be_placed(b, positions, player_index, 1)
    IN IF can_generally_be_placed = "panic" THEN "panic"
       ELSE IF first_round
       THEN LET touches_corner ==
                    \E i \in DOMAIN positions : block_touches_corner(b, positions[i])
            IN Bool(touches_corner /\ can_generally_be_placed = "true")
       ELSE LET is_diagonally_adjacent ==
                    some_block_is_diagonally_adjacent(b, positions, player_index, 1)
            IN IF is_diagonally_adjacent = "panic" THEN "panic"
               ELSE Bool(is_diagonally_adjacent = "true" /\ can_generally_be_placed = "true")

\* for local_position in piece.blocks() { self.occupy_position(..)? }
RECURSIVE occupy_positions(_, _, _, _)
occupy_positions(b, positions, player_index, i) ==
    IF i > Len(positions) THEN [panic |-> FALSE, board |-> b]
    ELSE LET r == occupy_position(b, positions[i], player_index)
         IN IF r.panic THEN r
            ELSE occupy_positions(r.board, positions, player_index, i + 1)

\* Faulty variant of Board_place_piece: marks the cells before it rejects
Board_place_piece_marks_on_reject(b, p, offset, player_index, first_round) ==
    LET can == piece_can_be_placed(b, p, offset, player_index, first_round)
        r == occupy_positions(b, target_positions(p, offset), player_index, 1)
    IN IF can = "panic" THEN [result |-> "panic", returned |-> p, board |-> b]
       ELSE IF r.panic THEN [result |-> "panic", returned |-> p, board |-> r.board]
       ELSE IF can = "false" THEN [result |-> "Some", returned |-> p, board |-> r.board]
       ELSE [result |-> "None", returned |-> p, board |-> r.board]

\* Board::place_piece: result "None" for Ok(None) (accepted), "Some" for
\* Ok(Some(piece)) (rejected, `returned` is the piece handed back), "panic".
Board_place_piece(b, p, offset, player_index, first_round) ==
    LET can == piece_can_be_placed(b, p, offset, player_index, first_round)
    IN IF can = "panic" THEN [result |-> "panic", returned |-> p, board |-> b]
       ELSE IF can = "false" THEN [result |-> "Some", returned |-> p, board |-> b]
       ELSE LET r == occupy_positions(b, target_positions(p, offset), player_index, 1)
            IN IF r.panic THEN [result |-> "panic", returned |-> p, board |-> r.board]
               ELSE [result |-> "None", returned |-> p, board |-> r.board]

(***************************************************************************)
(* Player, Players                                                         *)
(***************************************************************************)
\* Player::new (the two colours are display payload and are left out)
Player_new(name, available_pieces) ==
    [name |-> name, available_pieces |-> available_pieces, first_move |-> TRUE]

\* Faulty variant of VecRemove: Vec::swap_remove, the last element fills the
\* hole
VecRemove_swap(v, index) ==
    [i \in 1..(Len(v) - 1) |-> IF i = index + 1 THEN v[Len(v)] ELSE v[i]]

\* Vec::remove(index), Vec::insert(index, element), for an index in range
VecRemove(v, index) == [i \in 1..(Len(v) - 1) |-> IF i <= index THEN v[i] ELSE v[i + 1]]
VecInsert(v, index, e) ==
    [i \in 1..(Len(v) + 1) |-> IF i <= index THEN v[i] ELSE IF i = index + 1 THEN e ELSE v[i - 1]]

\* Faulty variant of switch_to_next_player: no wrap-around
switch_to_next_player_no_wrap(roster, index) == index + 1

\* Faulty variant of switch_to_next_player: the turn stays
switch_to_next_player_stay(roster, index) == index

\* Players::switch_to_next_player
switch_to_next_player(roster, index) == (index + 1) % Len(roster)

(***************************************************************************)
(* Game                                                                    *)
(***************************************************************************)
\* Game::return_piece_to_list.  `4 - rotations` is u16 arithmetic: for
\* rotations > 4 a build with overflow checks panics and a build without
\* them wraps around.
return_piece_to_list(roster, index, piece_index, rotations, p, overflow_checks) ==
    IF rotations > 4 /\ overflow_checks
    THEN [panic |-> TRUE, players |-> roster]
    ELSE LET restored == rotate_times(p, (4 - rotations) % U16)
         IN [panic |-> FALSE,
             players |-> [roster EXCEPT ![index + 1].available_pieces =
                              VecInsert(@, piece_index, restored)]]

\* Faulty variant of Game_place_piece: switches to the next player before it
\* clears first_move, so the flag of the next player is cleared
Game_place_piece_clears_next(b, roster, index, piece_index, rotations, position, overflow_checks) ==
    LET player_index == index
        first_round == roster[index + 1].first_move
        inventory == roster[index + 1].available_pieces
    IN IF piece_index >= Len(inventory)
       THEN [result |-> "panic", board |-> b, players |-> roster,
             active_player_index |-> index]
       ELSE
       LET taken == [roster EXCEPT ![index + 1].available_pieces = VecRemove(@, piece_index)]
           rotated == rotate_times(inventory[piece_index + 1], rotations)
           placed == Board_place_piece(b, rotated, position, player_index, first_round)
           next == (index + 1) % Len(roster)
       IN IF placed.result = "panic"
          THEN [result |-> "panic", board |-> placed.board, players |-> taken,
                active_player_index |-> index]
          ELSE IF placed.result = "Some"
          THEN LET back == return_piece_to_list(taken, index, piece_index, rotations,
                                                placed.returned, overflow_checks)
               IN [result |-> IF back.panic THEN "panic" ELSE "Ok(false)",
                   board |-> placed.board, players |-> back.players,
                   active_player_index |-> index]
          ELSE [result |-> "Ok(true)",
                board |-> placed.board,
                players |-> [taken EXCEPT ![next + 1].first_move = FALSE],
                active_player_index |-> next]

\* Game::place_piece: result "Ok(true)", "Ok(false)" or "panic", with the
\* state the call leaves behind.  No path returns Err: the only fallible
\* reads are unwrapped inside Board::piece_can_be_placed, and
\* Board::occupy_position always returns Ok.
Game_place_piece(b, roster, index, piece_index, rotations, position, overflow_checks) ==
    LET player_index == index
        first_round == roster[index + 1].first_move
        inventory == roster[index + 1].available_pieces
    IN IF piece_index >= Len(inventory)
       THEN \* take_piece: Vec::remove panics
            [result |-> "panic", board |-> b, players |-> roster,
             active_player_index |-> index]
       ELSE
       LET taken == [roster EXCEPT ![index + 1].available_pieces = VecRemove(@, piece_index)]
           rotated == rotate_times(inventory[piece_index + 1], rotations)
           placed == Board_place_piece(b, rotated, position, player_index, first_round)
       IN IF placed.result = "panic"
          THEN [result |-> "panic", board |-> placed.board, players |-> taken,
                active_player_index |-> index]
          ELSE IF placed.result = "Some"
          THEN LET back == return_piece_to_list(taken, index, piece_index, rotations,
                                                placed.returned, overflow_checks)
               IN [result |-> IF back.panic THEN "panic" ELSE "Ok(false)",
                   board |-> placed.board, players |-> back.players,
                   active_player_index |-> index]
          ELSE [result |-> "Ok(true)",
                board |-> placed.board,
                players |-> [taken EXCEPT ![index + 1].first_move = FALSE],
                active_player_index |-> switch_to_next_player(taken, index)]

(***************************************************************************)
(* The pieces and players of the modelled games.                           *)
(***************************************************************************)
\* tests::piece_1x1
piece_1x1 == Piece_new(<<Position(0, 0)>>, 0)

\* The piece FromStr builds from the two-line grid "xx" / "..": pivot 0.5
piece_domino == Piece_new(<<Position(0, 0), Position(1, 0)>>, 2)

\* The piece FromStr builds from the one-line grid "xx": pivot 0.0
piece_wide == Piece_new(<<Position(0, 0), Position(1, 0)>>, 0)

\* read_piece_set: every player starts with a clone of the same set
piece_set == <<piece_1x1, piece_domino, piece_wide>>

\* main: the names of the players, in roster order
PlayerNames == <<"Bob", "Alice", "Eve", "Pete">>

\* The names of the players of a game of more than four players: main's
\* four, then further ones
SeatNames == PlayerNames \o <<"Mallory", "Trent", "Peggy", "Victor">>

NoPiece == piece_1x1
NoGameCall ==
    [piece_index |-> 0, rotations |-> 0, position |-> Position(0, 0), result |-> "none",
     board |-> Board_new(1, 1), players |-> <<>>, active_player_index |-> 0, calls |-> 0,
     placements |-> <<>>]
NoBoardCall ==
    [piece |-> NoPiece, offset |-> Position(0, 0), player_index |-> 0, first_round |-> TRUE,
     result |-> "none", returned |-> NoPiece, board |-> Board_new(1, 1), calls |-> 0]
NoPieceCall == [original |-> NoPiece, before |-> NoPiece, rotations |-> 0]
NoStateCall ==
    [position |-> Position(0, 0), made |-> FALSE, result |-> [ok |-> TRUE, value |-> Free],
     board |-> Board_new(1, 1)]
NoParseCall == [lines |-> <<>>, result |-> "none"]
\* BoardDisplay::new: State::Default; the IndexedPiece fields matter in
\* State::PieceSelected only
NoDisplay == [state |-> "Default", piece |-> NoPiece, index |-> 0, rotations |-> 0]

(***************************************************************************)
(* impl FromStr for Piece (src/src/main.rs).  The text is given as the     *)
(* sequence string.lines() yields; a line is a sequence of characters.     *)
(***************************************************************************)
\* line.chars().enumerate().filter_map(..): the 'x' characters of line y,
\* from column x on, in column order
RECURSIVE line_blocks(_, _, _)
line_blocks(line, y, x) ==
    IF x >= Len(line) THEN <<>>
    ELSE (IF line[x + 1] = "x" THEN <<Position(x % U16, y % U16)>> ELSE <<>>)
             \o line_blocks(line, y, x + 1)

\* string.lines().enumerate().flat_map(..): the blocks of the lines from
\* line y on, in line order
RECURSIVE grid_blocks(_, _)
grid_blocks(lines, y) ==
    IF y >= Len(lines) THEN <<>>
    ELSE line_blocks(lines[y + 1], y, 0) \o grid_blocks(lines, y + 1)

\* Faulty variant of from_str: the pivot is half the line count
from_str_half_line_count(lines) ==
    LET bs == grid_blocks(lines, 0)
    IN IF Len(lines) = 0 \/ bs = <<>>
       THEN [result |-> "panic", piece |-> NoPiece]
       ELSE [result |-> "Ok", piece |-> Piece_new(bs, 2 * Len(lines))]

\* Piece::from_str.  The pivot is (lines().count() - 1) / 2.0, in quarters
\* 2 * (count - 1).  A text without lines underflows count - 1 (a panic with
\* overflow checks) and, like every text without an 'x', reaches Piece::new
\* with no blocks, where min().unwrap() panics.
from_str(lines) ==
    LET bs == grid_blocks(lines, 0)
    IN IF Len(lines) = 0 \/ bs = <<>>
       THEN [result |-> "panic", piece |-> NoPiece]
       ELSE [result |-> "Ok", piece |-> Piece_new(bs, 2 * (Len(lines) - 1))]

(***************************************************************************)
(* Spec: a game, driven by Game::place_piece.                              *)
(***************************************************************************)
\* Game::new over Players::new, for one player and for MaxPlayers players:
\* the first seat is random
Init ==
    /\ board = Board_new(BoardWidth, BoardHeight)
    /\ \E n \in {1, MaxPlayers} :
          /\ players = [i \in 1..n |-> Player_new(PlayerNames[i], piece_set)]
          /\ active_player_index \in 0..(n - 1)
    /\ game_call = [NoGameCall EXCEPT !.board = board, !.players = players,
                                      !.active_player_index = active_player_index]
    /\ board_call = NoBoardCall
    /\ piece = NoPiece
    /\ piece_call = NoPieceCall
    /\ state_call = NoStateCall
    /\ parse_call = NoParseCall
    /\ display = NoDisplay

\* The record of an accepted call: the player whose turn it was and the
\* cells the call changed
Placement(player_index, before, after) ==
    [player_index |-> player_index,
     cells |-> {c \in {Position(x, y) : x \in 0..(before.width - 1),
                                        y \in 0..(before.height - 1)} :
                   after.tiles[c.y][c.x] # before.tiles[c.y][c.x]}]

\* Game::place_piece is called; the call's arguments, the state it started
\* from, its result and the accepted placements of the game so far are kept
GameCall(piece_index, rotations, position, overflow_checks) ==
    /\ game_call.result = "none"
    /\ \E r \in {Game_place_piece(board, players, active_player_index,
                                 piece_index, rotations, position, overflow_checks)} :
          /\ board' = r.board
          /\ players' = r.players
          /\ active_player_index' = r.active_player_index
          /\ game_call' = [piece_index |-> piece_index, rotations |-> rotations,
                           position |-> position, result |-> r.result,
                           board |-> board, players |-> players,
                           active_player_index |-> active_player_index,
                           calls |-> game_call.calls + 1,
                           placements |-> IF r.result = "Ok(true)"
                                          THEN Append(game_call.placements,
                                                      Placement(active_player_index,
                                                                board, r.board))
                                          ELSE game_call.placements]

\* Game::place_piece called by a caller other than the board display
GamePlacePiece(piece_index, rotations, position, overflow_checks) ==
    /\ GameCall(piece_index, rotations, position, overflow_checks)
    /\ UNCHANGED <<board_call, piece, piece_call, state_call, parse_call, display>>

\* The caller has taken the result of the call (BoardDisplay::place_piece
\* matches on it); the game is ready for the next call.  After a panic there
\* is no next call.
GameResultTaken ==
    /\ game_call.result \in {"Ok(true)", "Ok(false)"}
    /\ game_call' = [NoGameCall EXCEPT !.board = board, !.players = players,
                                       !.active_player_index = active_player_index,
                                       !.calls = game_call.calls,
                                       !.placements = game_call.placements]
    /\ UNCHANGED <<board, players, active_player_index, board_call, piece, piece_call,
                   state_call, parse_call, display>>

\* The caller's cursor is a cell of the board (BoardDisplay keeps it there);
\* the blocks of the piece may still reach past the right or bottom edge.
Next ==
    \/ \E piece_index \in 0..Len(players[active_player_index + 1].available_pieces),
          rotations \in 0..MaxRotations,
          x \in 0..(board.width - 1), y \in 0..(board.height - 1) :
           \E overflow_checks \in IF rotations > 4 THEN BOOLEAN ELSE {TRUE} :
               /\ game_call.calls < MaxCalls
               /\ GamePlacePiece(piece_index, rotations, Position(x, y), overflow_checks)
    \/ GameResultTaken

Spec == Init /\ [][Next]_vars

(***************************************************************************)
(* SpecRotations: the first calls of a game, with rotation counts past 4.  *)
(***************************************************************************)
NextRotations ==
    \/ \E piece_index \in 0..Len(players[active_player_index + 1].available_pieces),
          rotations \in 0..MaxRotationsAnyCount,
          x \in 0..(board.width - 1), y \in 0..(board.height - 1) :
           \E overflow_checks \in IF rotations > 4 THEN BOOLEAN ELSE {TRUE} :
               /\ game_call.calls < MaxCallsAnyRotations
               /\ GamePlacePiece(piece_index, rotations, Position(x, y), overflow_checks)
    \/ GameResultTaken

SpecRotations == Init /\ [][NextRotations]_vars

(***************************************************************************)
(* SpecSeats: a game of more players than the board has corners, and a     *)
(* game of one player; every inventory holds the pieces of seat_piece_set. *)
(***************************************************************************)
seat_piece_set == <<piece_1x1>>

InitSeats ==
    /\ board = Board_new(BoardWidth, BoardHeight)
    /\ \E n \in {1, MaxSeats} :
          /\ players = [i \in 1..n |-> Player_new(SeatNames[i], seat_piece_set)]
          /\ active_player_index \in 0..(n - 1)
    /\ game_call = [NoGameCall EXCEPT !.board = board, !.players = players,
                                      !.active_player_index = active_player_index]
    /\ board_call = NoBoardCall
    /\ piece = NoPiece
    /\ piece_call = NoPieceCall
    /\ state_call = NoStateCall
    /\ parse_call = NoParseCall
    /\ display = NoDisplay

NextSeats ==
    \/ \E piece_index \in 0..Len(players[active_player_index + 1].available_pieces),
          rotations \in 0..MaxSeatRotations,
          x \in 0..(board.width - 1), y \in 0..(board.height - 1) :
           /\ game_call.calls < MaxSeatCalls
           /\ GamePlacePiece(piece_index, rotations, Position(x, y), TRUE)
    \/ GameResultTaken

SpecSeats == InitSeats /\ [][NextSeats]_vars

(***************************************************************************)
(* SpecUi: a game driven through BoardDisplay::update                      *)
(* (src/src/ui/board_module.rs).  Of BoardDisplay the model keeps `state`; *)
(* cursors, cursor, index and vertical_scrollbar are cursor bookkeeping of *)
(* the type Cursor, and the position the display passes to                 *)
(* Game::place_piece is taken to be any cell of the board.  An event that  *)
(* update() ignores in the current state changes nothing and is not an     *)
(* action.  A panic leaves state "panic".                                  *)
(***************************************************************************)
InitUi ==
    /\ board = Board_new(BoardWidth, BoardHeight)
    /\ \E n \in {1, MaxPlayers} :
          /\ players = [i \in 1..n |-> Player_new(PlayerNames[i], piece_set)]
          /\ active_player_index \in 0..(n - 1)
    /\ game_call = [NoGameCall EXCEPT !.board = board, !.players = players,
                                      !.active_player_index = active_player_index]
    /\ board_call = NoBoardCall
    /\ piece = NoPiece
    /\ piece_call = NoPieceCall
    /\ state_call = NoStateCall
    /\ parse_call = NoParseCall
    /\ display = NoDisplay

\* BoardDisplay::is_enabled
is_enabled(d) == d.state # "Disabled"

\* update(AppEvent::OpenPieceSelection): self.state = State::Disabled
UiOpenPieceSelection ==
    /\ game_call.result = "none"
    /\ display.state \in {"Default", "PieceSelected"}
    /\ is_enabled(display)
    /\ display' = [NoDisplay EXCEPT !.state = "Disabled"]
    /\ UNCHANGED <<board, players, active_player_index, game_call, board_call, piece,
                   piece_call, state_call, parse_call>>

\* BoardDisplay::select_piece: game.active_player_pieces()[index].clone()
\* panics for an index out of range
select_piece(d, index, roster, active) ==
    IF index >= Len(roster[active + 1].available_pieces)
    THEN [NoDisplay EXCEPT !.state = "panic"]
    ELSE [state |-> "PieceSelected", piece |-> roster[active + 1].available_pieces[index + 1],
          index |-> index, rotations |-> 0]

\* update(AppEvent::PieceSelected(piece_index)) while the display is
\* disabled
UiPieceSelected(piece_index) ==
    /\ game_call.result = "none"
    /\ display.state = "Disabled"
    /\ ~is_enabled(display)
    /\ display' = select_piece(display, piece_index, players, active_player_index)
    /\ UNCHANGED <<board, players, active_player_index, game_call, board_call, piece,
                   piece_call, state_call, parse_call>>

\* IndexedPiece::rotate
IndexedPiece_rotate(d) ==
    [d EXCEPT !.rotations = ((d.rotations + 1) % U16) % 4, !.piece = rotate(d.piece)]

\* update(AppEvent::Rotate): BoardDisplay::rotate_piece, in
\* State::PieceSelected
UiRotate ==
    /\ game_call.result = "none"
    /\ is_enabled(display)
    /\ display.state = "PieceSelected"
    /\ display' = IndexedPiece_rotate(display)
    /\ UNCHANGED <<board, players, active_player_index, game_call, board_call, piece,
                   piece_call, state_call, parse_call>>

\* update(AppEvent::Select): BoardDisplay::place_piece, in
\* State::PieceSelected, with the cursor at `position`
UiSelect(position) ==
    /\ is_enabled(display)
    /\ display.state = "PieceSelected"
    /\ GameCall(display.index, display.rotations, position, TRUE)
    /\ display' = IF game_call'.result = "Ok(true)" THEN NoDisplay ELSE display
    /\ UNCHANGED <<board_call, piece, piece_call, state_call, parse_call>>

NextUi ==
    \/ UiOpenPieceSelection
    \/ \E piece_index \in 0..Len(players[active_player_index + 1].available_pieces) :
           UiPieceSelected(piece_index)
    \/ UiRotate
    \/ \E x \in 0..(board.width - 1), y \in 0..(board.height - 1) :
           /\ game_call.calls < MaxCalls
           /\ UiSelect(Position(x, y))
    \/ GameResultTaken

SpecUi == InitUi /\ [][NextUi]_vars

(***************************************************************************)
(* SpecBoard: a board, driven by Board::place_piece as in the unit tests.  *)
(***************************************************************************)
\* The pieces handed to Board::place_piece: the set's pieces in every
\* orientation rotate() gives them.
BoardPieces == {rotate_times(piece_set[i], k) : i \in DOMAIN piece_set, k \in 0..3}

InitBoard ==
    /\ board = Board_new(BoardWidth, BoardHeight)
    /\ players = <<>>
    /\ active_player_index = 0
    /\ game_call = NoGameCall
    /\ board_call = [NoBoardCall EXCEPT !.board = board]
    /\ piece = NoPiece
    /\ piece_call = NoPieceCall
    /\ state_call = NoStateCall
    /\ parse_call = NoParseCall
    /\ display = NoDisplay

BoardPlacePiece(p, offset, player_index, first_round) ==
    /\ board_call.result = "none"
    /\ ~state_call.made
    /\ board_call.calls < MaxCalls
    /\ \E r \in {Board_place_piece(board, p, offset, player_index, first_round)} :
          /\ board' = r.board
          /\ board_call' = [piece |-> p, offset |-> offset, player_index |-> player_index,
                            first_round |-> first_round, result |-> r.result,
                            returned |-> r.returned, board |-> board,
                            calls |-> board_call.calls + 1]
    /\ UNCHANGED <<players, active_player_index, game_call, piece, piece_call, state_call,
                   parse_call, display>>

\* The caller has taken the result of the call (tests::should_place_block
\* asserts on it); the board is ready for the next call.
BoardResultTaken ==
    /\ board_call.result \in {"None", "Some"}
    /\ board_call' = [NoBoardCall EXCEPT !.board = board, !.calls = board_call.calls]
    /\ UNCHANGED <<board, players, active_player_index, game_call, piece, piece_call,
                   state_call, parse_call, display>>

\* A caller reads a cell between two placements, as tests::should_place_block
\* does; &self: the board cannot change.
BoardGetState(position) ==
    /\ board_call.result = "none"
    /\ ~state_call.made
    /\ state_call' = [position |-> position, made |-> TRUE,
                      result |-> get_state_on_position(board, position), board |-> board]
    /\ UNCHANGED <<board, players, active_player_index, game_call, board_call, piece,
                   piece_call, parse_call, display>>

\* The caller has taken the result of the read (the test compares it, the
\* renderer unwraps it).
StateResultTaken ==
    /\ state_call.made
    /\ state_call.result.ok
    /\ state_call' = NoStateCall
    /\ UNCHANGED <<board, players, active_player_index, game_call, board_call, piece,
                   piece_call, parse_call, display>>

\* As in Game::place_piece, the offset is a cell of the board; the blocks of
\* the piece may reach past the right or bottom edge.  A read is made at any
\* position up to one past the edges.
NextBoard ==
    \/ \E p \in BoardPieces, x \in 0..(board.width - 1), y \in 0..(board.height - 1),
          player_index \in 0..(MaxPlayers - 1), first_round \in BOOLEAN :
           BoardPlacePiece(p, Position(x, y), player_index, first_round)
    \/ BoardResultTaken
    \/ \E x \in 0..board.width, y \in 0..board.height : BoardGetState(Position(x, y))
    \/ StateResultTaken

SpecBoard == InitBoard /\ [][NextBoard]_vars

(***************************************************************************)
(* SpecPiece: a piece, driven by Piece::rotate.                            *)
(***************************************************************************)
Coordinates == 0..MaxCoordinate
Positions == {Position(x, y) : x \in Coordinates, y \in Coordinates}
BlockLists == UNION {[1..n -> Positions] : n \in 1..MaxBlocks}
Pivots == 0..MaxPivot

InitPiece ==
    /\ board = Board_new(1, 1)
    /\ players = <<>>
    /\ active_player_index = 0
    /\ game_call = NoGameCall
    /\ board_call = NoBoardCall
    /\ \E bs \in BlockLists, pivot \in Pivots : piece = Piece_new(bs, pivot)
    /\ piece_call = [original |-> piece, before |-> piece, rotations |-> 0]
    /\ state_call = NoStateCall
    /\ parse_call = NoParseCall
    /\ display = NoDisplay

PieceRotate ==
    /\ piece_call.rotations < MaxRotateCalls
    /\ piece' = rotate(piece)
    /\ piece_call' = [original |-> piece_call.original, before |-> piece,
                      rotations |-> piece_call.rotations + 1]
    /\ UNCHANGED <<board, players, active_player_index, game_call, board_call, state_call,
                   parse_call, display>>

NextPiece == PieceRotate

SpecPiece == InitPiece /\ [][NextPiece]_vars

(***************************************************************************)
(* SpecFromStr: a piece read from a text by Piece::from_str, then rotated. *)
(***************************************************************************)
Characters == {"x", "."}
GridLines == UNION {[1..n -> Characters] : n \in 0..MaxGridColumns}
Grids == UNION {[1..n -> GridLines] : n \in 0..MaxGridLines}

InitFromStr ==
    /\ board = Board_new(1, 1)
    /\ players = <<>>
    /\ active_player_index = 0
    /\ game_call = NoGameCall
    /\ board_call = NoBoardCall
    /\ piece = NoPiece
    /\ piece_call = NoPieceCall
    /\ state_call = NoStateCall
    /\ parse_call = NoParseCall
    /\ display = NoDisplay

\* read_piece_set: Piece::from_str(text) for a text with the given lines
PieceFromStr(lines) ==
    /\ parse_call.result = "none"
    /\ \E r \in {from_str(lines)} :
          /\ parse_call' = [lines |-> lines, result |-> r.result]
          /\ piece' = r.piece
          /\ piece_call' = [original |-> r.piece, before |-> r.piece, rotations |-> 0]
    /\ UNCHANGED <<board, players, active_player_index, game_call, board_call, state_call,
                   display>>

\* The piece that was read is rotated; after a panic there is no piece.
NextFromStr ==
    \/ \E lines \in Grids : PieceFromStr(lines)
    \/ parse_call.result = "Ok" /\ PieceRotate

SpecFromStr == InitFromStr /\ [][NextFromStr]_vars

(***************************************************************************)
(* Properties of Board::place_piece (SpecBoard).                           *)
(***************************************************************************)
Cells(b) == {Position(x, y) : x \in 0..(b.width - 1), y \in 0..(b.height - 1)}
Corners(b) == {Position(x, y) : x \in {0, b.width - 1}, y \in {0, b.height - 1}}
Offsets(steps) == {<<d[1], d[2]>> : d \in steps}
Orthogonal == {<<0 - 1, 0>>, <<1, 0>>, <<0, 0 - 1>>, <<0, 1>>}
Diagonal == {<<0 - 1, 0 - 1>>, <<1, 0 - 1>>, <<0 - 1, 1>>, <<1, 1>>}

\* Some neighbour of `position` in the directions `steps` lies on the grid
\* and is Occupied by player_index.
HasNeighbourOf(b, position, steps, player_index) ==
    \E d \in steps :
        /\ position.x + d[1] \in 0..(b.width - 1)
        /\ position.y + d[2] \in 0..(b.height - 1)
        /\ b.tiles[position.y + d[2]][position.x + d[1]] = Occupied(player_index)

\* The cells block + offset of a placement, as a set
TargetCells(p, offset) ==
    {Position(blocks(p)[i].x + offset.x, blocks(p)[i].y + offset.y) : i \in DOMAIN p.blocks}

\* The placement rule of the game, stated over the board before the call
LegalPlacement(b, p, offset, player_index, first_round) ==
    /\ \A t \in TargetCells(p, offset) :
          /\ b.tiles[t.y][t.x] = Free
          /\ ~HasNeighbourOf(b, t, Orthogonal, player_index)
    /\ IF first_round
       THEN TargetCells(p, offset) \cap Corners(b) # {}
       ELSE \E t \in TargetCells(p, offset) : HasNeighbourOf(b, t, Diagonal, player_index)

BoardCallMade == board_call.result # "none"
BoardCallTargets == TargetCells(board_call.piece, board_call.offset)
BoardCallInGrid == BoardCallTargets \subseteq Cells(board_call.board)

\* C1: when all target cells lie inside the grid, Board::place_piece accepts
\* (returns no piece) if and only if every target cell is Free and has no
\* orthogonal neighbour of the same player, and some target cell is a grid
\* corner (first_round) or has a diagonal neighbour of the same player
\* (otherwise).
C1_AcceptsIffLegal ==
    (BoardCallMade /\ BoardCallInGrid) =>
        ((board_call.result = "None") <=>
            LegalPlacement(board_call.board, board_call.piece, board_call.offset,
                           board_call.player_index, board_call.first_round))

\* A two-block piece was accepted on the diagonal rule.
C1_Witness ==
    /\ BoardCallMade /\ BoardCallInGrid
    /\ board_call.result = "None"
    /\ ~board_call.first_round
    /\ Cardinality(BoardCallTargets) = 2

\* C2: when Board::place_piece accepts, exactly the cells block + offset
\* become Occupied(player_index) and every other cell keeps its state.
C2_AcceptMarksExactlyTargets ==
    (BoardCallMade /\ board_call.result = "None") =>
        /\ board.width = board_call.board.width
        /\ board.height = board_call.board.height
        /\ BoardCallInGrid
        /\ \A c \in Cells(board) :
              board.tiles[c.y][c.x] =
                  IF c \in BoardCallTargets
                  THEN Occupied(board_call.player_index)
                  ELSE board_call.board.tiles[c.y][c.x]

\* Player 1 placed a two-block piece on a board that already held a cell.
C2_Witness ==
    /\ board_call.result = "None"
    /\ board_call.player_index = 1
    /\ Cardinality(BoardCallTargets) = 2
    /\ \E c \in Cells(board) : board_call.board.tiles[c.y][c.x] # Free

\* C3: when Board::place_piece rejects, no cell changes and the piece handed
\* back equals the piece passed in; the outcome is Ok(Some(piece)).
C3_RejectChangesNothing ==
    (BoardCallMade /\ board_call.result = "Some") =>
        /\ board = board_call.board
        /\ board_call.returned = board_call.piece

\* A rotated two-block piece was rejected on free cells of a board that is
\* not empty.
C3_Witness ==
    /\ board_call.result = "Some"
    /\ board_call.piece.bounding_box_offset # Position(0, 0)
    /\ BoardCallInGrid
    /\ \A t \in BoardCallTargets : board_call.board.tiles[t.y][t.x] = Free
    /\ \E c \in Cells(board) : board.tiles[c.y][c.x] # Free

(***************************************************************************)
(* Properties of Game::place_piece (Spec).                                 *)
(***************************************************************************)
GameCallMade == game_call.result # "none"

\* The inventory of the player who made the call, before and after it
InventoryBefore == game_call.players[game_call.active_player_index + 1].available_pieces
InventoryAfter == players[game_call.active_player_index + 1].available_pieces
FirstMoves(roster) == [i \in DOMAIN roster |-> roster[i].first_move]
Roster(roster) == [i \in DOMAIN roster |-> roster[i].name]

\* The piece of the call in the orientation it is placed in, and its cells
GameCallValidIndex == game_call.piece_index < Len(InventoryBefore)
GameCallPiece == rotate_times(InventoryBefore[game_call.piece_index + 1], game_call.rotations)
GameCallTargets == TargetCells(GameCallPiece, game_call.position)

\* C4: after Game::place_piece returns Ok(false), the active player's
\* inventory is identical to the inventory before the call (length, order,
\* blocks, dimensions and bounding_box_offset of every piece), and the board,
\* the active player index and every first_move flag are unchanged.
C4_RejectedIsInvisible ==
    (GameCallMade /\ game_call.result = "Ok(false)") =>
        /\ InventoryAfter = InventoryBefore
        /\ players = game_call.players
        /\ board = game_call.board
        /\ active_player_index = game_call.active_player_index
        /\ FirstMoves(players) = FirstMoves(game_call.players)

\* C5: for every call of Game::place_piece, in a game with at least one
\* player, active_player_index differs from its value before the call if and
\* only if the call returned Ok(true).
C5_TurnChangesIffAccepted ==
    (GameCallMade /\ Len(players) >= 1) =>
        ((active_player_index # game_call.active_player_index) <=>
            (game_call.result = "Ok(true)"))

\* C5, amended: in a game with at least two players, active_player_index
\* differs from its value before the call if and only if the call returned
\* Ok(true).
C5_TurnChangesIffAcceptedTwoPlayers ==
    (GameCallMade /\ Len(players) >= 2) =>
        ((active_player_index # game_call.active_player_index) <=>
            (game_call.result = "Ok(true)"))

\* Among two or more players, a call was rejected and the next one, by the
\* same player, was accepted.
C5_Witness ==
    /\ Len(players) >= 2
    /\ game_call.result = "Ok(true)"
    /\ game_call.calls >= 2
    /\ game_call.board = Board_new(BoardWidth, BoardHeight)

\* C6: every accepted Game::place_piece sets active_player_index to
\* (i + 1) mod N, for i the index before the call and N the number of
\* players; the number and order of the players never change.
C6_RoundRobin ==
    GameCallMade =>
        /\ Roster(players) = Roster(game_call.players)
        /\ (game_call.result = "Ok(true)") =>
              active_player_index =
                  (game_call.active_player_index + 1) % Len(game_call.players)

\* The last player of a roster of two or more placed a piece: the turn wraps.
C6_Witness ==
    /\ game_call.result = "Ok(true)"
    /\ Len(players) >= 2
    /\ game_call.active_player_index = Len(players) - 1
    /\ active_player_index = 0

\* C7: a cell that is Occupied(p) stays Occupied(p): no step changes a cell
\* from Occupied to Free or from one owner to another.
C7_OccupiedIsForever ==
    [][\A c \in Cells(board) :
          board.tiles[c.y][c.x] # Free => board'.tiles[c.y][c.x] = board.tiles[c.y][c.x]]_vars

\* A call aimed at a cell that another player had occupied before.
C7_Witness ==
    /\ GameCallMade
    /\ GameCallValidIndex
    /\ \E t \in GameCallTargets :
          /\ t \in Cells(board)
          /\ game_call.board.tiles[t.y][t.x] # Free
          /\ game_call.board.tiles[t.y][t.x] # Occupied(game_call.active_player_index)

\* C10: a call with a valid piece_index and a position that puts a block of
\* the rotated piece outside the grid returns an OutOfBounds error as a
\* value, and leaves the board, the inventory, the first_move flags and the
\* active player index as they were.
C10_OutOfBoundsIsAnError ==
    (GameCallMade /\ GameCallValidIndex /\ ~(GameCallTargets \subseteq Cells(game_call.board))) =>
        /\ game_call.result = "Err"
        /\ board = game_call.board
        /\ players = game_call.players
        /\ active_player_index = game_call.active_player_index

(***************************************************************************)
(* Properties of Piece::rotate (SpecPiece).                                *)
(***************************************************************************)
\* C8: for any piece, four calls of rotate() return every stored block to
\* its original coordinates, in the original order.
C8_FourRotationsRestore ==
    (piece_call.rotations = 4) => (piece.blocks = piece_call.original.blocks)

\* C9: after any rotate() call, num_lines and num_columns are the swapped
\* values from before the call, and the positions blocks() yields have
\* minimum x 0 and minimum y 0.
C9_RotateSwapsBox ==
    (piece_call.rotations >= 1) =>
        /\ piece.num_lines = piece_call.before.num_columns
        /\ piece.num_columns = piece_call.before.num_lines
        /\ piece.num_lines * piece.num_columns =
               piece_call.before.num_lines * piece_call.before.num_columns
        /\ min_x(blocks(piece)) = 0
        /\ min_y(blocks(piece)) = 0

\* A piece that is not square was rotated, and its blocks do not start at
\* the origin after the rotation.
C9_Witness ==
    /\ piece_call.rotations >= 1
    /\ piece_call.before.num_lines # piece_call.before.num_columns
    /\ piece.bounding_box_offset.x > 0
    /\ piece.bounding_box_offset.y > 0

(***************************************************************************)
(* The error path of Game::place_piece for a piece_index out of range      *)
(* (Spec).                                                                 *)
(***************************************************************************)
\* C11: a call with piece_index >= the length of the active player's
\* inventory returns an invalid-piece-index error as a value, and leaves the
\* board, every inventory, the first_move flags and the active player index
\* unchanged.
C11_InvalidIndexIsAnError ==
    (GameCallMade /\ ~GameCallValidIndex) =>
        /\ game_call.result = "Err"
        /\ board = game_call.board
        /\ players = game_call.players
        /\ active_player_index = game_call.active_player_index

(***************************************************************************)
(* The parts of the placement rule (SpecBoard).                            *)
(***************************************************************************)
\* All target cells of the call are cells of the grid and Free, and none has
\* an orthogonal neighbour of the placing player.
BoardCallFreeAndApart ==
    /\ BoardCallInGrid
    /\ \A t \in BoardCallTargets :
          /\ board_call.board.tiles[t.y][t.x] = Free
          /\ ~HasNeighbourOf(board_call.board, t, Orthogonal, board_call.player_index)

\* Some target cell of the call has an orthogonal neighbour of the placing
\* player.
BoardCallTouchesOwnEdge ==
    \E t \in BoardCallTargets :
        HasNeighbourOf(board_call.board, t, Orthogonal, board_call.player_index)

\* C12: on a first move, a placement whose target cells are all Free and
\* without same-player orthogonal neighbours is rejected when none of them is
\* one of the four grid corners, and accepted when one of them is.
C12_FirstMoveNeedsCorner ==
    (BoardCallMade /\ board_call.first_round /\ BoardCallFreeAndApart) =>
        /\ (BoardCallTargets \cap Corners(board_call.board) = {}) =>
               board_call.result = "Some"
        /\ (BoardCallTargets \cap Corners(board_call.board) # {}) =>
               board_call.result = "None"

\* A first move on free cells away from every corner was rejected, on a board
\* on which a first move on a corner had been accepted.
C12_Witness ==
    /\ board_call.result = "Some"
    /\ board_call.first_round
    /\ BoardCallFreeAndApart
    /\ BoardCallTargets \cap Corners(board_call.board) = {}
    /\ \E c \in Corners(board_call.board) : board_call.board.tiles[c.y][c.x] # Free

OwnedCells(b, player_index) ==
    {c \in Cells(b) : b.tiles[c.y][c.x] = Occupied(player_index)}

\* C14: with first_round false and the player owning exactly the cell (0,0),
\* a single-block piece is accepted at (1,1), when that cell is Free, and
\* rejected at (0,1) and at (1,0); after the first move every accepted
\* placement has a target cell with a diagonal neighbour of the same player
\* and no target cell with an orthogonal neighbour of the same player.
C14_DiagonalRule ==
    (BoardCallMade /\ ~board_call.first_round) =>
        /\ ( /\ board_call.piece = piece_1x1
             /\ OwnedCells(board_call.board, board_call.player_index) = {Position(0, 0)} ) =>
               /\ (board_call.offset = Position(1, 1)) =>
                      ((board_call.result = "None") <=>
                          (board_call.board.tiles[1][1] = Free))
               /\ (board_call.offset \in {Position(0, 1), Position(1, 0)}) =>
                      board_call.result = "Some"
        /\ (board_call.result = "None") =>
               /\ BoardCallInGrid
               /\ \A t \in BoardCallTargets : board_call.board.tiles[t.y][t.x] = Free
               /\ \E t \in BoardCallTargets :
                     HasNeighbourOf(board_call.board, t, Diagonal, board_call.player_index)
               /\ ~BoardCallTouchesOwnEdge

\* The player who owns exactly (0,0) placed the single-block piece at (1,1)
\* after the first move.
C14_Witness ==
    /\ board_call.result = "None"
    /\ ~board_call.first_round
    /\ board_call.piece = piece_1x1
    /\ board_call.offset = Position(1, 1)
    /\ OwnedCells(board_call.board, board_call.player_index) = {Position(0, 0)}

\* The call places the 1x1 piece on a cell of the grid.
BoardCallSingleCell ==
    /\ board_call.piece = piece_1x1
    /\ BoardCallInGrid

\* Some target cell of the call is a cell of the grid that is Occupied.
BoardCallHitsOccupied ==
    \E t \in BoardCallTargets \cap Cells(board_call.board) :
        board_call.board.tiles[t.y][t.x] # Free

C16_FirstMoveFlag ==
    /\ [](/\ \A i \in DOMAIN players :
                players[i].first_move <=> (OwnedCells(board, i - 1) = {})
          /\ GameCallMade =>
                \A i \in DOMAIN players :
                    players[i].first_move =
                        IF game_call.result = "Ok(true)"
                           /\ i = game_call.active_player_index + 1
                        THEN FALSE
                        ELSE game_call.players[i].first_move)
    /\ [][\A i \in DOMAIN players :
              ~players[i].first_move => ~players'[i].first_move]_vars

\* A player whose flag is still set had a placement rejected after another
\* player's flag was cleared.
C16_Witness ==
    /\ game_call.result = "Ok(false)"
    /\ players[game_call.active_player_index + 1].first_move
    /\ \E i \in DOMAIN players : ~players[i].first_move

\* What tells the pieces of one inventory apart in every orientation: the
\* pivot and the number of blocks (rotate changes neither, and no two pieces
\* of piece_set agree in both).
PieceIdentity(p) == <<p.pivot, Len(p.blocks)>>
Identities(inventory) == {PieceIdentity(inventory[i]) : i \in DOMAIN inventory}

\* C17: after an accepted Game::place_piece the inventory of the player who
\* placed is the previous inventory without the element at piece_index, the
\* other pieces in their order; the inventories of all other players are
\* unchanged; and no step brings a piece back into an inventory that does
\* not hold it.
C17_PlacedPieceIsGone ==
    /\ []((GameCallMade /\ game_call.result = "Ok(true)") =>
              /\ Len(InventoryAfter) = Len(InventoryBefore) - 1
              /\ \A j \in DOMAIN InventoryAfter :
                    InventoryAfter[j] =
                        IF j <= game_call.piece_index
                        THEN InventoryBefore[j] ELSE InventoryBefore[j + 1]
              /\ PieceIdentity(InventoryBefore[game_call.piece_index + 1])
                     \notin Identities(InventoryAfter)
              /\ \A i \in DOMAIN players :
                    i # game_call.active_player_index + 1 =>
                        players[i].available_pieces = game_call.players[i].available_pieces)
    /\ [][\A i \in DOMAIN players :
              /\ Len(players'[i].available_pieces) <= Len(players[i].available_pieces)
              /\ Identities(players'[i].available_pieces)
                     \subseteq Identities(players[i].available_pieces)]_vars

\* Among two or more players, a piece that is not the last of its inventory
\* was placed.
C17_Witness ==
    /\ game_call.result = "Ok(true)"
    /\ Len(players) >= 2
    /\ game_call.piece_index + 1 < Len(InventoryBefore)

\* The call of game_call made again from the state before it, with
\* rotations mod 4 in place of rotations
GameCallModFour ==
    Game_place_piece(game_call.board, game_call.players, game_call.active_player_index,
                     game_call.piece_index, game_call.rotations % 4, game_call.position, TRUE)

\* C18: Game::place_piece rotates the piece (rotations mod 4) times before
\* placement and, on rejection, (4 - rotations) mod 4 further times; a call
\* with rotations r has the same outcome and leaves the same board,
\* inventories and turn as the call with r mod 4.
C18_RotationsModFour ==
    (GameCallMade /\ GameCallValidIndex) =>
        /\ game_call.result = GameCallModFour.result
        /\ board = GameCallModFour.board
        /\ players = GameCallModFour.players
        /\ active_player_index = GameCallModFour.active_player_index
        /\ (game_call.result = "Ok(false)") =>
               InventoryAfter[game_call.piece_index + 1] =
                   rotate_times(InventoryBefore[game_call.piece_index + 1],
                                (game_call.rotations % 4) + ((4 - game_call.rotations) % 4))

(***************************************************************************)
(* The block transform of Piece::rotate (SpecPiece).                       *)
(***************************************************************************)
\* C19: rotate() maps every stored block (x, y) to (2 * pivot - y, x), keeps
\* the blocks in the same sequence order and leaves the pivot unchanged (the
\* pivot is held in quarters, so the first equation is stated times 4).
C19_RotateMapsBlocks ==
    (piece_call.rotations >= 1) =>
        /\ piece.pivot = piece_call.before.pivot
        /\ Len(piece.blocks) = Len(piece_call.before.blocks)
        /\ \A i \in DOMAIN piece.blocks :
              /\ 4 * piece.blocks[i].x =
                     2 * piece_call.before.pivot - 4 * piece_call.before.blocks[i].y
              /\ piece.blocks[i].y = piece_call.before.blocks[i].x

(***************************************************************************)
(* Board::get_state_on_position (SpecBoard).                               *)
(***************************************************************************)
\* C20: get_state_on_position(pos) returns an OutOfBounds error exactly when
\* pos.x >= width or pos.y >= height, otherwise the state stored for that
\* cell; in both cases the board is as before the call.
C20_ReadIsBoundedAndPure ==
    state_call.made =>
        /\ ~state_call.result.ok <=>
               (state_call.position.x >= state_call.board.width
                    \/ state_call.position.y >= state_call.board.height)
        /\ ~state_call.result.ok => state_call.result.value[1] = "Out of bounds"
        /\ state_call.result.ok =>
               state_call.result.value =
                   state_call.board.tiles[state_call.position.y][state_call.position.x]
        /\ board = state_call.board

\* On a board that holds a piece, a read one line past the bottom edge, in a
\* column of the grid, returned the error.
C20_Witness ==
    /\ state_call.made
    /\ ~state_call.result.ok
    /\ state_call.position.y = board.height
    /\ state_call.position.x < board.width
    /\ \E c \in Cells(board) : board.tiles[c.y][c.x] # Free

(***************************************************************************)
(* Properties of the roster (Spec).                                        *)
(***************************************************************************)
\* C21: for a roster of N >= 1 players, Players::new sets
\* active_player_index to a value in [0, N), and after any sequence of
\* Game::place_piece calls it is still in [0, N): active_player() always
\* refers to an existing player.
C21_ActiveIndexInRange ==
    /\ Len(players) >= 1
    /\ active_player_index \in 0..(Len(players) - 1)
    /\ game_call.active_player_index \in 0..(Len(game_call.players) - 1)

\* The second call of a game of two or more players was accepted, after the
\* first call had been accepted too: the turn has been on every seat of a
\* roster of two.
C21_Witness ==
    /\ game_call.result = "Ok(true)"
    /\ game_call.calls >= 2
    /\ Len(players) >= 2
    /\ game_call.board # Board_new(BoardWidth, BoardHeight)

(***************************************************************************)
(* Properties of Piece::from_str (SpecFromStr).                            *)
(***************************************************************************)
\* The positions (column, line) of the 'x' characters of a text
GridCells(lines) ==
    UNION {{Position(c, l) : c \in {k \in 0..(Len(lines[l + 1]) - 1) : lines[l + 1][k + 1] = "x"}}
              : l \in 0..(Len(lines) - 1)}
ParsedBlocks == {piece_call.original.blocks[i] : i \in DOMAIN piece_call.original.blocks}

\* C22, as stated: a Piece built from a text grid has its pivot set to half
\* the number of lines of the grid (in quarters: twice the line count), and
\* each 'x' at column c of line l becomes the block (c, l).
C22_PivotIsHalfLineCount ==
    parse_call.result = "Ok" =>
        /\ piece_call.original.pivot = 2 * Len(parse_call.lines)
        /\ ParsedBlocks = GridCells(parse_call.lines)
        /\ Len(piece_call.original.blocks) = Cardinality(GridCells(parse_call.lines))

\* C22, amended: a Piece built from a text grid has its pivot set to half of
\* (the number of lines - 1), the centre of the lines' indices (in quarters:
\* twice the line count less two), and each 'x' at column c of line l
\* becomes the block (c, l), once.
C22_PivotIsHalfLastLine ==
    parse_call.result = "Ok" =>
        /\ piece_call.original.pivot = 2 * (Len(parse_call.lines) - 1)
        /\ ParsedBlocks = GridCells(parse_call.lines)
        /\ Len(piece_call.original.blocks) = Cardinality(GridCells(parse_call.lines))

\* A piece read from the two lines "x." and ".x".
C22_Witness ==
    /\ parse_call.result = "Ok"
    /\ parse_call.lines = <<<<"x", ".">>, <<".", "x">>>>
    /\ piece_call.rotations = 0
    /\ piece.pivot = 2

(***************************************************************************)
(* Properties of the neighbour scans (SpecBoard).                          *)
(***************************************************************************)
\* C23: in a placement whose target cells are all inside the grid, border
\* and corner cells included, the edge scan and the diagonal scan of a
\* target cell read no position outside [0, width) x [0, height): neither
\* they nor the call panic (no OutOfBounds, no underflow), and a neighbour
\* that is not on the grid counts for neither scan: the edge scan answers
\* false exactly when an orthogonal neighbour on the grid is the player's,
\* the diagonal scan answers true exactly when a diagonal neighbour on the
\* grid is the player's.
C23_ScansStayInGrid ==
    (BoardCallMade /\ BoardCallInGrid) =>
        /\ board_call.result # "panic"
        /\ \A t \in BoardCallTargets :
              /\ block_is_not_adjacent_to_other_blocks_from_same_player(
                     board_call.board, t, board_call.player_index)
                 = Bool(~HasNeighbourOf(board_call.board, t, Orthogonal,
                                        board_call.player_index))
              /\ block_is_diagonally_adjacent_to_block_from_same_player(
                     board_call.board, t, board_call.player_index)
                 = Bool(HasNeighbourOf(board_call.board, t, Diagonal,
                                       board_call.player_index))

\* A later move onto the bottom right corner cell, accepted because its one
\* diagonal neighbour on the grid is the player's.
C23_Witness ==
    /\ board_call.result = "None"
    /\ ~board_call.first_round
    /\ BoardCallInGrid
    /\ Position(board_call.board.width - 1, board_call.board.height - 1) \in BoardCallTargets
    /\ board_call.board # Board_new(BoardWidth, BoardHeight)

(***************************************************************************)
(* Properties of the inventories and the board of a game (Spec).           *)
(***************************************************************************)
\* The number of blocks of the pieces of an inventory
RECURSIVE BlockCount(_)
BlockCount(inventory) ==
    IF inventory = <<>> THEN 0
    ELSE Len(Head(inventory).blocks) + BlockCount(Tail(inventory))

\* The number of accepted placements of a player
AcceptedBy(player_index) ==
    Cardinality({i \in DOMAIN game_call.placements :
                     game_call.placements[i].player_index = player_index})

\* C24: between Game::place_piece calls, for every player p the number of
\* cells Occupied(p) equals the number of blocks of the pieces missing from
\* p's inventory, and the length of p's inventory plus the number of p's
\* accepted placements equals the length of p's initial inventory.
C24_PieceIsInInventoryOrOnBoard ==
    game_call.result # "panic" =>
        \A i \in DOMAIN players :
            /\ Cardinality(OwnedCells(board, i - 1))
                   = BlockCount(piece_set) - BlockCount(players[i].available_pieces)
            /\ Len(players[i].available_pieces) + AcceptedBy(i - 1) = Len(piece_set)

\* The players with an accepted placement
PlayersThatMoved == {game_call.placements[k].player_index : k \in DOMAIN game_call.placements}

\* C25: a player whose first_move flag is true owns no cell of the board, a
\* player whose first_move flag is false owns at least one of the four
\* corner cells of the grid, and at most four players have made a move.
C25_MovedPlayersOwnCorners ==
    /\ \A i \in DOMAIN players :
          IF players[i].first_move
          THEN OwnedCells(board, i - 1) = {}
          ELSE OwnedCells(board, i - 1) \cap Corners(board) # {}
    /\ Cardinality(PlayersThatMoved) <= 4
    /\ Cardinality({i \in DOMAIN players : ~players[i].first_move}) <= 4

\* Four of five players have moved; a placement of the fifth was rejected.
C25_Witness ==
    /\ game_call.result = "Ok(false)"
    /\ Len(players) = MaxSeats
    /\ Cardinality(PlayersThatMoved) = 4
    /\ players[active_player_index + 1].first_move

\* Cells a and b touch at a corner only
TouchDiagonally(a, b) == <<b.x - a.x, b.y - a.y>> \in Diagonal

\* C26: two orthogonally adjacent cells owned by the same player were
\* occupied by the same placement (blocks of two pieces of one player never
\* share an edge), and every piece a player placed after their first is
\* diagonally adjacent to a cell of one of that player's earlier pieces.
C26_OwnPiecesTouchAtCornersOnly ==
    /\ \A a \in Cells(board) :
          board.tiles[a.y][a.x] # Free =>
              \A d \in Orthogonal :
                  (/\ a.x + d[1] \in 0..(board.width - 1)
                   /\ a.y + d[2] \in 0..(board.height - 1)
                   /\ board.tiles[a.y + d[2]][a.x + d[1]] = board.tiles[a.y][a.x])
                  => \E k \in DOMAIN game_call.placements :
                         /\ board.tiles[a.y][a.x]
                                = Occupied(game_call.placements[k].player_index)
                         /\ {a, Position(a.x + d[1], a.y + d[2])}
                                \subseteq game_call.placements[k].cells
    /\ \A k \in DOMAIN game_call.placements :
          LET earlier == {j \in 1..(k - 1) : game_call.placements[j].player_index
                                                = game_call.placements[k].player_index}
          IN earlier # {} =>
                 \E j \in earlier :
                     \E a \in game_call.placements[k].cells, b \in game_call.placements[j].cells :
                         TouchDiagonally(a, b)

\* A player placed a piece of two cells and then a second piece.
C26_Witness ==
    /\ Len(game_call.placements) = 2
    /\ game_call.placements[1].player_index = game_call.placements[2].player_index
    /\ Cardinality(game_call.placements[1].cells) = 2
    /\ game_call.result = "Ok(true)"

(***************************************************************************)
(* Properties of the turn (SpecSeats).                                     *)
(***************************************************************************)
\* The player at `index` has a legal placement: a piece of the inventory, a
\* number of rotations and a position whose target cells are on the grid and
\* satisfy the placement rule
HasLegalPlacement(b, roster, index) ==
    \E p \in {rotate_times(roster[index + 1].available_pieces[i], r) :
                  i \in DOMAIN roster[index + 1].available_pieces, r \in 0..MaxRotations} :
        \E c \in Cells(b) :
            /\ TargetCells(p, c) \subseteq Cells(b)
            /\ LegalPlacement(b, p, c, index, roster[index + 1].first_move)

\* C27: the turn leaves a player, and the board changes, only through an
\* accepted placement by the active player; when the active player has no
\* legal placement for any piece, rotation and position, a call leaves
\* active_player_index and the board as they were and the active player
\* without a legal placement, so they never change again.
C27_StuckPlayerKeepsTheTurn ==
    /\ [][(active_player_index' # active_player_index \/ board' # board)
             => /\ game_call'.result = "Ok(true)"
                /\ game_call'.calls = game_call.calls + 1
                /\ game_call'.active_player_index = active_player_index
                /\ game_call'.board = board]_vars
    /\ [](~HasLegalPlacement(game_call.board, game_call.players,
                             game_call.active_player_index)
             => /\ active_player_index = game_call.active_player_index
                /\ board = game_call.board
                /\ ~HasLegalPlacement(board, players, active_player_index))

\* The fifth player, whose first move is pending, had a placement rejected
\* when the other four players owned the four corner cells.
C27_Witness ==
    /\ game_call.result = "Ok(false)"
    /\ ~HasLegalPlacement(game_call.board, game_call.players, game_call.active_player_index)
    /\ players[active_player_index + 1].first_move
    /\ \A c \in Corners(board) : board.tiles[c.y][c.x] # Free
    /\ Len(players) = MaxSeats

(***************************************************************************)
(* The bounding box of a rotated piece (SpecPiece).                        *)
(***************************************************************************)
StoredXs == [i \in DOMAIN piece.blocks |-> piece.blocks[i].x]
StoredYs == [i \in DOMAIN piece.blocks |-> piece.blocks[i].y]

\* C28: for any piece, after any number of rotate() calls, num_columns is
\* max x - min x + 1 and num_lines is max y - min y + 1 of the stored blocks,
\* bounding_box_offset is (min x, min y) of the stored blocks, and every
\* position blocks() yields has x < num_columns and y < num_lines.
C28_BoxMatchesBlocks ==
    /\ piece.num_columns = SeqMax(StoredXs) - SeqMin(StoredXs) + 1
    /\ piece.num_lines = SeqMax(StoredYs) - SeqMin(StoredYs) + 1
    /\ piece.bounding_box_offset = Position(SeqMin(StoredXs), SeqMin(StoredYs))
    /\ \A i \in DOMAIN piece.blocks :
          /\ blocks(piece)[i].x < piece.num_columns
          /\ blocks(piece)[i].y < piece.num_lines

(***************************************************************************)
(* The blocks of a piece read from a text, under rotation (SpecFromStr).   *)
(***************************************************************************)
\* The blocks of a piece are pairwise distinct
Distinct(bs) == \A i \in DOMAIN bs, j \in DOMAIN bs : bs[i] = bs[j] => i = j

\* C29: rotate() never merges blocks: a piece whose stored blocks are
\* pairwise distinct has, after any number of rotate() calls, the same number
\* of blocks, still pairwise distinct; this includes a piece read from a text
\* grid that is wider than it is tall.
C29_RotateKeepsBlocksApart ==
    (parse_call.result = "Ok" /\ Distinct(piece_call.original.blocks)) =>
        /\ Len(piece.blocks) = Len(piece_call.original.blocks)
        /\ Distinct(piece.blocks)

(***************************************************************************)
(* Properties of the board display (SpecUi).                               *)
(***************************************************************************)
\* The piece of the active player's inventory at the index the display
\* stores
SelectedInventoryPiece == players[active_player_index + 1].available_pieces[display.index + 1]

\* The display shows a piece (and no call has panicked): its counter is in
\* 0..3 and its piece is the inventory piece at the stored index, rotated as
\* often as the counter says
PreviewFollowsCounter ==
    (display.state = "PieceSelected" /\ game_call.result # "panic") =>
        /\ display.rotations \in 0..3
        /\ display.index < Len(players[active_player_index + 1].available_pieces)
        /\ display.piece = rotate_times(SelectedInventoryPiece, display.rotations)

\* Every Game::place_piece call carries a rotation count in 0..3
CallCarriesCounter == GameCallMade => game_call.rotations \in 0..3

\* The state becomes Default only from PieceSelected by an accepted
\* placement, and a rejected placement leaves PieceSelected with the same
\* index and counter
DefaultOnlyWhenAccepted ==
    /\ (display'.state = "Default" /\ display.state # "Default")
           => (display.state = "PieceSelected" /\ game_call'.result = "Ok(true)")
    /\ (game_call.result = "none" /\ game_call'.result = "Ok(false)")
           => /\ display'.state = "PieceSelected"
              /\ display'.index = display.index
              /\ display'.rotations = display.rotations

\* C30: for any sequence of Rotate events after a piece is selected, the
\* stored rotation counter stays in {0,1,2,3} and the previewed piece equals
\* the inventory piece at the stored index rotated exactly that many times;
\* every Game::place_piece call issued on Select carries a rotation count in
\* 0..3; the state returns to Default only when the placement is accepted and
\* stays PieceSelected with the same index and counter when it is rejected.
C30_PreviewIsInventoryPieceRotated ==
    /\ [](PreviewFollowsCounter /\ CallCarriesCounter)
    /\ [][DefaultOnlyWhenAccepted]_vars

====
